---- MODULE Spec2Model ----
(***************************************************************************)
(* A model of the ginject container (package boot): the descriptor store,  *)
(* the capability index built by validateTypeRegistrations, field          *)
(* injection and the Init/Start/Stop lifecycle.                            *)
(*                                                                         *)
(* Every exported entry point is one action that models the whole call.    *)
(* The helpers are operators over explicit arguments (the store's maps are *)
(* passed in) so that Run can chain its stages inside one action.          *)
(***************************************************************************)
EXTENDS Integers, Sequences, FiniteSets, TLC

(***************************************************************************)
(* Bounds of the model.                                                    *)
(***************************************************************************)
MaxComponents == 3
MaxExports == 2
MaxPriority == 1

(***************************************************************************)
(* The user's program: the instances handed to Object/AutoRegister, their  *)
(* Go types, the interfaces those types satisfy and the lifecycle          *)
(* interfaces they implement.  "x" and "y" are registered by pointer, "z"  *)
(* by value.                                                               *)
(***************************************************************************)
Instances == {"x", "y", "z"}
Nil == "nil"

TypeOf(i) == CASE i = "x" -> "*X" [] i = "y" -> "*Y" [] OTHER -> "Z"

IsPtr(i) == i \in {"x", "y"}

\* reflect.Type.String() of the instance type, pointer stripped
DefaultName(i) == CASE i = "x" -> "X" [] i = "y" -> "Y" [] OTHER -> "Z"

\* interface types satisfied by the instance's method set
Implements(i) == CASE i = "x" -> {"I"} [] i = "y" -> {"I", "J"} [] OTHER -> {"J"}

\* reflect.Type.AssignableTo: identical type, or an interface the type satisfies
AssignableTo(i, t) == t = TypeOf(i) \/ t \in Implements(i)

Initializable == {"x", "z"}
Startable == {"x", "y", "z"}
Stoppable == {"x", "y"}

\* instances that implement Component (Priority() and Name()), for AutoRegister
ComponentImpls == {"x", "z"}

Priorities == 0..MaxPriority

\* goroutines: the one that calls Run and the ones that call GetByName/GetByType
Readers == {"r1", "r2"}

Threads == {"run"} \cup Readers

\* names given to Name() or returned by Component.Name()
Names == {"Y", "n"}

\* len(",optional")
OptionalSuffixLen == 9

VARIABLES
    pendingBuilders,    \* package-level list of ObjectBuilders not yet registered
    components,         \* Container.components: descriptors in registration order
    componentsByName,   \* Container.componentsByName
    componentsByType,   \* Container.componentsByType (the capability index)
    started,            \* Container.started
    fields,             \* per instance, its autowire-tagged struct fields (fixed by the program)
    fieldVal,           \* per instance, the current value of each tagged field
    mu,                 \* Container.mu: the writer holding it and the readers inside
    pc,                 \* per goroutine, where it is in the call it runs
    shutdownChan,       \* package-level shutdownChan: the number of values it buffers
    appPc,              \* where RunApplication is
    requested,          \* observation: Shutdown has been called
    stopCalls,          \* observation: the calls of Container.Stop by RunApplication
    passed,             \* observation: the stages that a Run has completed so far
    lastStart,          \* observation: the visit order and store of the last successful Start
    last                \* observation: what the last call did and returned

\* the state of RunApplication and Shutdown
appVars == <<shutdownChan, appPc, requested, stopCalls>>

vars == <<pendingBuilders, components, componentsByName, componentsByType,
          started, fields, fieldVal, mu, pc, appVars, passed, lastStart, last>>

(***************************************************************************)
(* Errors.  kind "nil" is Go's nil error; kind "panic" is a run-time       *)
(* panic that leaves the call without returning.                           *)
(***************************************************************************)
Err(kind, comp, field, type, names) ==
    [kind |-> kind, comp |-> comp, field |-> field, type |-> type, names |-> names]

NoErr == Err("nil", "", "", "", <<>>)

Range(s) == {s[k] : k \in DOMAIN s}

Reverse(s) == [k \in 1..Len(s) |-> s[Len(s) + 1 - k]]

EmptyMap == [k \in {} |-> Nil]

(***************************************************************************)
(* ObjectBuilder (object_builder.go).  nameSet and prioritySet are written *)
(* and never read; they are left out.                                      *)
(***************************************************************************)
newObjectBuilder(i) ==
    [instance |-> i, instanceType |-> TypeOf(i), name |-> DefaultName(i),
     priority |-> 0, exportedTypes |-> <<TypeOf(i)>>, isPrimary |-> FALSE]

BuilderInfo(b) ==
    [Instance |-> b.instance, InstanceType |-> TypeOf(b.instance), Name |-> b.name,
     Priority |-> b.priority, ExportedTypes |-> b.exportedTypes,
     IsPrimary |-> b.isPrimary]

(***************************************************************************)
(* registerComponent: the result is the new list, the new name index and   *)
(* the error.                                                              *)
(***************************************************************************)
\* a variant of registerComponent without the check of the name; the property
\* of duplicate names must not hold of it
registerComponentNoCheck(comps, byName, info) ==
    [components |-> Append(comps, info),
     byName |-> [n \in DOMAIN byName \cup {info.Name} |->
                    IF n = info.Name THEN info ELSE byName[n]],
     err |-> NoErr]

\* a variant of registerComponent that appends to the list and leaves the
\* name index alone; the agreement of list and index must not hold of it
registerComponentUnindexed(comps, byName, info) ==
    IF info.Name \in DOMAIN byName
    THEN [components |-> comps, byName |-> byName,
          err |-> Err("duplicate", info.Name, "", "", <<>>)]
    ELSE [components |-> Append(comps, info), byName |-> byName, err |-> NoErr]

registerComponent(comps, byName, info) ==
    IF info.Name \in DOMAIN byName
    THEN [components |-> comps, byName |-> byName,
          err |-> Err("duplicate", info.Name, "", "", <<>>)]
    ELSE [components |-> Append(comps, info),
          byName |-> [n \in DOMAIN byName \cup {info.Name} |->
                         IF n = info.Name THEN info ELSE byName[n]],
          err |-> NoErr]

\* registerPendingBuilders: register in order, stop at the first error; the
\* pending list is cleared only when every builder registered.
RECURSIVE registerFrom(_, _, _, _)
registerFrom(builders, k, comps, byName) ==
    IF k > Len(builders)
    THEN [components |-> comps, byName |-> byName, err |-> NoErr, pending |-> <<>>]
    ELSE LET r == registerComponent(comps, byName, BuilderInfo(builders[k]))
         IN IF r.err.kind # "nil"
            THEN [components |-> r.components, byName |-> r.byName, err |-> r.err,
                  pending |-> builders]
            ELSE registerFrom(builders, k + 1, r.components, r.byName)

registerPendingBuilders(builders, comps, byName) ==
    registerFrom(builders, 1, comps, byName)

(***************************************************************************)
(* validateTypeRegistrations.  typeGroups lists, per exported type, the    *)
(* descriptors (positions in the list) that export it, one entry per       *)
(* occurrence in an ExportedTypes slice.                                   *)
(***************************************************************************)
RECURSIVE exportPairs(_, _)
exportPairs(comps, k) ==
    IF k > Len(comps) THEN <<>>
    ELSE [j \in 1..Len(comps[k].ExportedTypes) |->
              [idx |-> k, type |-> comps[k].ExportedTypes[j]]]
         \o exportPairs(comps, k + 1)

typeGroups(comps) ==
    LET pairs == exportPairs(comps, 1)
        keys == {pairs[j].type : j \in DOMAIN pairs}
        pick(t) == SelectSeq(pairs, LAMBDA p : p.type = t)
    IN [t \in keys |-> [j \in 1..Len(pick(t)) |-> pick(t)[j].idx]]

namesOf(comps, group) == [j \in 1..Len(group) |-> comps[group[j]].Name]

\* a variant of validateGroup that rejects no group; the properties of the
\* validation errors must not hold of it
validateGroupFirstPrimary(comps, t, group) ==
    LET primaryComponents == SelectSeq(group, LAMBDA k : comps[k].IsPrimary)
    IN IF Len(group) = 1 THEN [info |-> comps[group[1]], err |-> NoErr]
       ELSE IF Len(primaryComponents) = 0
       THEN [info |-> comps[group[1]], err |-> NoErr]
       ELSE [info |-> comps[primaryComponents[1]], err |-> NoErr]

\* the body of the loop over typeGroups for one group: the descriptor chosen
\* for the type, or the error
validateGroup(comps, t, group) ==
    LET primaryComponents == SelectSeq(group, LAMBDA k : comps[k].IsPrimary)
    IN IF Len(group) = 1 THEN [info |-> comps[group[1]], err |-> NoErr]
       ELSE IF Len(primaryComponents) = 0
       THEN [info |-> Nil, err |-> Err("ambiguous", "", "", t, namesOf(comps, group))]
       ELSE IF Len(primaryComponents) > 1
       THEN [info |-> Nil,
             err |-> Err("conflict", "", "", t, namesOf(comps, primaryComponents))]
       ELSE [info |-> comps[primaryComponents[1]], err |-> NoErr]

\* a variant of validateTypeRegistrations that does not clear the index: the
\* entries of the index as it is are kept and only the missing ones are
\* added; the property of the rebuild from scratch must not hold of it
validateKeepingEntries(comps) ==
    LET tg == typeGroups(comps)
        verdict(t) == validateGroup(comps, t, tg[t])
        bad == {t \in DOMAIN tg : verdict(t).err.kind # "nil"}
        good == DOMAIN tg \ bad
        kept(new) == [t \in new \cup DOMAIN componentsByType |->
                         IF t \in DOMAIN componentsByType THEN componentsByType[t]
                         ELSE verdict(t).info]
    IN IF bad = {}
       THEN {[byType |-> kept(good), err |-> NoErr]}
       ELSE {[byType |-> kept(visited), err |-> verdict(f).err] :
                 f \in bad, visited \in SUBSET good}

\* The index is cleared first.  Go ranges over the typeGroups map in an
\* unspecified order and returns at the first failing group: the error is that
\* of any failing type, and the index then holds the entries of the types that
\* happened to be visited before it.
validateTypeRegistrations(comps) ==
    LET tg == typeGroups(comps)
        verdict(t) == validateGroup(comps, t, tg[t])
        bad == {t \in DOMAIN tg : verdict(t).err.kind # "nil"}
        good == DOMAIN tg \ bad
    IN IF bad = {}
       THEN {[byType |-> [t \in good |-> verdict(t).info], err |-> NoErr]}
       ELSE {[byType |-> [t \in visited |-> verdict(t).info], err |-> verdict(f).err] :
                 f \in bad, visited \in SUBSET good}

(***************************************************************************)
(* Resolution of one field (resolveDependencyUnsafe and the two lookups).  *)
(* The result is the instance found (Nil for none) and the error.          *)
(***************************************************************************)
getByNameUnsafe(byName, name) ==
    IF name \in DOMAIN byName
    THEN [dep |-> byName[name].Instance, err |-> NoErr]
    ELSE [dep |-> Nil, err |-> Err("not-found", name, "", "", <<>>)]

getByTypeUnsafe(byType, t) ==
    IF t \in DOMAIN byType
    THEN [dep |-> byType[t].Instance, err |-> NoErr]
    ELSE [dep |-> Nil, err |-> Err("not-found", "", "", t, <<>>)]

\* len(tag) > 9 && tag[len(tag)-9:] == ",optional"
hasOptionalSuffix(tag) ==
    /\ Len(tag) > OptionalSuffixLen
    /\ SubSeq(tag, Len(tag) - OptionalSuffixLen + 1, Len(tag)) = ",optional"

isOptionalTag(tag) == tag = "optional" \/ tag = "?" \/ hasOptionalSuffix(tag)

\* a variant of resolveDependencyUnsafe that takes every "<name>,optional"
\* by name, "required" included; the property of the directive grammar must
\* not hold of it
resolveSuffixByName(byName, byType, fieldType, qualifier) ==
    IF qualifier = "optional" \/ qualifier = "?"
    THEN [dep |-> getByTypeUnsafe(byType, fieldType).dep, err |-> NoErr]
    ELSE LET isOptional == hasOptionalSuffix(qualifier)
             componentName ==
                 IF isOptional
                 THEN SubSeq(qualifier, 1, Len(qualifier) - OptionalSuffixLen)
                 ELSE qualifier
         IN IF ~isOptional /\ (componentName = "required" \/ componentName = "")
            THEN getByTypeUnsafe(byType, fieldType)
            ELSE LET r == getByNameUnsafe(byName, componentName)
                 IN IF r.err.kind # "nil"
                    THEN IF isOptional THEN [dep |-> Nil, err |-> NoErr] ELSE r
                    ELSE IF ~AssignableTo(r.dep, fieldType)
                    THEN IF isOptional THEN [dep |-> Nil, err |-> NoErr]
                         ELSE [dep |-> Nil,
                               err |-> Err("not-assignable", componentName, "",
                                           fieldType, <<>>)]
                    ELSE r

\* a variant of resolveDependencyUnsafe that tests the exported types of the
\* named component instead of the type of its instance; the property of the
\* type check must not hold of it
resolveByExports(byName, byType, fieldType, qualifier) ==
    IF qualifier = "optional" \/ qualifier = "?"
    THEN [dep |-> getByTypeUnsafe(byType, fieldType).dep, err |-> NoErr]
    ELSE LET isOptional == hasOptionalSuffix(qualifier)
             componentName ==
                 IF isOptional
                 THEN SubSeq(qualifier, 1, Len(qualifier) - OptionalSuffixLen)
                 ELSE qualifier
         IN IF componentName = "required" \/ componentName = ""
            THEN getByTypeUnsafe(byType, fieldType)
            ELSE LET r == getByNameUnsafe(byName, componentName)
                 IN IF r.err.kind # "nil"
                    THEN IF isOptional THEN [dep |-> Nil, err |-> NoErr] ELSE r
                    ELSE IF fieldType \notin Range(byName[componentName].ExportedTypes)
                    THEN IF isOptional THEN [dep |-> Nil, err |-> NoErr]
                         ELSE [dep |-> Nil,
                               err |-> Err("not-assignable", componentName, "",
                                           fieldType, <<>>)]
                    ELSE r

resolveDependencyUnsafe(byName, byType, fieldType, qualifier) ==
    IF qualifier = "optional" \/ qualifier = "?"
    THEN [dep |-> getByTypeUnsafe(byType, fieldType).dep, err |-> NoErr]
    ELSE LET isOptional == hasOptionalSuffix(qualifier)
             componentName ==
                 IF isOptional
                 THEN SubSeq(qualifier, 1, Len(qualifier) - OptionalSuffixLen)
                 ELSE qualifier
         IN IF componentName = "required" \/ componentName = ""
            THEN getByTypeUnsafe(byType, fieldType)
            ELSE LET r == getByNameUnsafe(byName, componentName)
                 IN IF r.err.kind # "nil"
                    THEN IF isOptional THEN [dep |-> Nil, err |-> NoErr] ELSE r
                    ELSE IF ~AssignableTo(r.dep, fieldType)
                    THEN IF isOptional THEN [dep |-> Nil, err |-> NoErr]
                         ELSE [dep |-> Nil,
                               err |-> Err("not-assignable", componentName, "",
                                           fieldType, <<>>)]
                    ELSE r

(***************************************************************************)
(* Injection.  fv is the value of every tagged field of every instance.    *)
(* A field of the instance is set through reflection: fields that cannot   *)
(* be set are skipped, an instance that is not a pointer is skipped whole, *)
(* and reflect.Value.Set panics when the value is not assignable to the    *)
(* field's type.                                                           *)
(***************************************************************************)
injectField(byName, byType, inst, k, fv) ==
    LET f == fields[inst][k]
        r == resolveDependencyUnsafe(byName, byType, f.type, f.tag)
    IN IF ~f.canSet THEN [fv |-> fv, err |-> NoErr]
       ELSE IF r.err.kind # "nil"
       THEN IF isOptionalTag(f.tag) THEN [fv |-> fv, err |-> NoErr]
            ELSE [fv |-> fv, err |-> Err("autowire", "", f.name, f.type, <<>>)]
       ELSE IF r.dep = Nil THEN [fv |-> fv, err |-> NoErr]
       ELSE IF ~AssignableTo(r.dep, f.type)
       THEN [fv |-> fv, err |-> Err("panic", "", f.name, f.type, <<>>)]
       ELSE [fv |-> [fv EXCEPT ![inst][k] = r.dep], err |-> NoErr]

RECURSIVE injectFieldsFrom(_, _, _, _, _)
injectFieldsFrom(byName, byType, inst, k, fv) ==
    IF k > Len(fields[inst]) THEN [fv |-> fv, err |-> NoErr]
    ELSE LET r == injectField(byName, byType, inst, k, fv)
         IN IF r.err.kind # "nil" THEN r
            ELSE injectFieldsFrom(byName, byType, inst, k + 1, r.fv)

injectComponentUnsafe(byName, byType, inst, fv) ==
    IF ~IsPtr(inst) THEN [fv |-> fv, err |-> NoErr]
    ELSE injectFieldsFrom(byName, byType, inst, 1, fv)

RECURSIVE injectFrom(_, _, _, _, _)
injectFrom(comps, byName, byType, j, fv) ==
    IF j > Len(comps) THEN [fv |-> fv, err |-> NoErr]
    ELSE LET r == injectComponentUnsafe(byName, byType, comps[j].Instance, fv)
         IN IF r.err.kind = "panic" THEN [fv |-> r.fv, err |-> [r.err EXCEPT !.comp = comps[j].Name]]
            ELSE IF r.err.kind # "nil"
            THEN [fv |-> r.fv,
                  err |-> Err("inject", comps[j].Name, r.err.field, r.err.type, <<>>)]
            ELSE injectFrom(comps, byName, byType, j + 1, r.fv)

\* a variant of InjectDependencies that visits the components by descending
\* priority, as the lifecycle phases do; the property of the order of
\* injection must not hold of it
InjectDependenciesSorted(comps, byName, byType, fv) ==
    LET n == Len(comps)
        order == CHOOSE p \in [1..n -> 1..n] :
                     /\ \A a, b \in 1..n : a # b => p[a] # p[b]
                     /\ \A a, b \in 1..n :
                            a < b => \/ comps[p[a]].Priority > comps[p[b]].Priority
                                     \/ /\ comps[p[a]].Priority = comps[p[b]].Priority
                                        /\ p[a] < p[b]
    IN injectFrom([j \in 1..n |-> comps[order[j]]], byName, byType, 1, fv)

InjectDependencies(comps, byName, byType, fv) == injectFrom(comps, byName, byType, 1, fv)

(***************************************************************************)
(* Lifecycle.  getSortedComponents sorts a copy of the list with           *)
(* sort.Slice, which is not a stable sort (it is insertion sort only up to *)
(* 12 elements): every order of the descriptors (positions in the list)    *)
(* that the comparison accepts as sorted is a possible result.             *)
(***************************************************************************)
less(comps, ascending, a, b) ==
    IF ascending THEN comps[a].Priority < comps[b].Priority
    ELSE comps[a].Priority > comps[b].Priority

getSortedComponents(comps, ascending) ==
    LET n == Len(comps)
    IN {p \in [1..n -> 1..n] :
           /\ \A a, b \in 1..n : a # b => p[a] # p[b]
           /\ \A a, b \in 1..n : a < b => ~less(comps, ascending, p[b], p[a])}

\* One entry per descriptor visited by a phase loop: whether the instance has
\* the phase's callback (it is then invoked) and whether the callback failed.
visit(phase, comps, capable, fail, k) ==
    [phase |-> phase, idx |-> k,
     called |-> comps[k].Instance \in capable,
     failed |-> comps[k].Instance \in capable /\ k \in fail]

\* a loop that visits every descriptor and reports the last failure (Stop)
visitAll(phase, comps, order, capable, fail) ==
    LET trace == [j \in 1..Len(order) |-> visit(phase, comps, capable, fail, order[j])]
        bad == {j \in 1..Len(order) : trace[j].failed}
        lastBad == CHOOSE j \in bad : \A q \in bad : q <= j
    IN [trace |-> trace,
        err |-> IF bad = {} THEN NoErr
                ELSE Err(phase, comps[order[lastBad]].Name, "", "", <<>>)]

\* a variant of visitUntilError that goes on after a failure and returns the
\* first one; the property of the aborted phase must not hold of it
visitPastError(phase, comps, order, capable, fail) ==
    LET all == [j \in 1..Len(order) |-> visit(phase, comps, capable, fail, order[j])]
        bad == {j \in 1..Len(order) : all[j].failed}
        firstBad == CHOOSE j \in bad : \A q \in bad : j <= q
    IN [trace |-> all,
        err |-> IF bad = {} THEN NoErr
                ELSE Err(phase, comps[order[firstBad]].Name, "", "", <<>>)]

\* a loop that returns at the first callback that fails (Initialize, Start)
visitUntilError(phase, comps, order, capable, fail) ==
    LET all == [j \in 1..Len(order) |-> visit(phase, comps, capable, fail, order[j])]
        bad == {j \in 1..Len(order) : all[j].failed}
        firstBad == CHOOSE j \in bad : \A q \in bad : j <= q
    IN IF bad = {} THEN [trace |-> all, err |-> NoErr]
       ELSE [trace |-> SubSeq(all, 1, firstBad),
             err |-> Err(phase, comps[order[firstBad]].Name, "", "", <<>>)]

initializePhase(comps, order, fail) ==
    visitUntilError("init", comps, order, Initializable, fail)

\* a variant of startPhase without the test of the started flag; the property
\* of the second Start must not hold of it
startPhaseAgain(comps, isStarted, order, fail) ==
    LET r == visitUntilError("start", comps, order, Startable, fail)
    IN [trace |-> r.trace, err |-> r.err, started |-> isStarted \/ r.err.kind = "nil"]

\* a variant of startPhase that sets the started flag before the loop; the
\* property of Stop after a failed Start must not hold of it
startPhaseFlagFirst(comps, isStarted, order, fail) ==
    IF isStarted
    THEN [trace |-> <<>>, err |-> Err("already-started", "", "", "", <<>>),
          started |-> isStarted]
    ELSE LET r == visitUntilError("start", comps, order, Startable, fail)
         IN [trace |-> r.trace, err |-> r.err, started |-> TRUE]

\* Start: the result is the trace, the error and the new started flag
startPhase(comps, isStarted, order, fail) ==
    IF isStarted
    THEN [trace |-> <<>>, err |-> Err("already-started", "", "", "", <<>>),
          started |-> isStarted]
    ELSE LET r == visitUntilError("start", comps, order, Startable, fail)
         IN [trace |-> r.trace, err |-> r.err, started |-> r.err.kind = "nil"]

\* a variant of stopPhase without the test of the started flag; the property
\* of Stop on a container that is not started must not hold of it
stopPhaseAlways(comps, isStarted, order, fail) ==
    LET r == visitAll("stop", comps, order, Stoppable, fail)
    IN [trace |-> r.trace, err |-> r.err, started |-> FALSE]

\* a variant of stopPhase that leaves the container started when a Stop
\* callback failed; the property of the completed Stop must not hold of it
stopPhaseRetryOnError(comps, isStarted, order, fail) ==
    IF ~isStarted THEN [trace |-> <<>>, err |-> NoErr, started |-> isStarted]
    ELSE LET r == visitAll("stop", comps, order, Stoppable, fail)
         IN [trace |-> r.trace, err |-> r.err, started |-> r.err.kind # "nil"]

\* Stop: every descriptor is visited, the last failure is returned
stopPhase(comps, isStarted, order, fail) ==
    IF ~isStarted THEN [trace |-> <<>>, err |-> NoErr, started |-> isStarted]
    ELSE LET r == visitAll("stop", comps, order, Stoppable, fail)
         IN [trace |-> r.trace, err |-> r.err, started |-> FALSE]

\* the callbacks that return an error in one call: a set of positions in the list
FailSets(n) == SUBSET (1..n)

\* For a loop that returns at the first failure, a set of failing callbacks
\* acts as its first visited member does: none or one failing callback.
FailOne(n) == {{}} \cup {{k} : k \in 1..n}

(***************************************************************************)
(* Run: register pending -> validate -> inject -> init -> start, returning *)
(* at the first stage that fails.  RunOutcomes is every result the call    *)
(* can have: the store it leaves, the stage that failed ("done" for none), *)
(* the error and the trace of the lifecycle loops.  failInit and failStart *)
(* are the callbacks that return an error.  Initialize and Start sort the  *)
(* same list with the same comparison, and the sort is a deterministic     *)
(* algorithm: both get the same order.                                     *)
(***************************************************************************)
RunResult(reg, byType, fv, isStarted, stage, err, trace, startOrder) ==
    [pending |-> reg.pending, components |-> reg.components, byName |-> reg.byName,
     byType |-> byType, fieldVal |-> fv, started |-> isStarted,
     stage |-> stage, err |-> err, trace |-> trace, startOrder |-> startOrder]

\* a variant of RunLifecycle that calls Start after a failed Initialize; the
\* property of the stages of Run must not hold of it
RunLifecycleStartAnyway(reg, v, inj, isStarted, failInit, failStart) ==
    {LET ini == initializePhase(reg.components, order, failInit)
         st == startPhase(reg.components, isStarted, order, failStart)
     IN IF ini.err.kind # "nil"
        THEN RunResult(reg, v.byType, inj.fv, st.started, "initialize", ini.err,
                       ini.trace \o st.trace, <<>>)
        ELSE RunResult(reg, v.byType, inj.fv, st.started,
                       IF st.err.kind = "nil" THEN "done" ELSE "start",
                       st.err, ini.trace \o st.trace, order) :
         order \in getSortedComponents(reg.components, FALSE)}

\* a variant of RunLifecycle that takes each component through Init and Start
\* before it goes to the next one; the property of the global phases must not
\* hold of it
RunLifecyclePerComponent(reg, v, inj, isStarted, failInit, failStart) ==
    {RunResult(reg, v.byType, inj.fv, TRUE, "done", NoErr,
               [j \in 1..(2 * Len(order)) |->
                    IF j % 2 = 1
                    THEN visit("init", reg.components, Initializable, failInit,
                               order[(j + 1) \div 2])
                    ELSE visit("start", reg.components, Startable, failStart,
                               order[j \div 2])],
               order) :
         order \in getSortedComponents(reg.components, FALSE)}

RunLifecycle(reg, v, inj, isStarted, failInit, failStart) ==
    {LET ini == initializePhase(reg.components, order, failInit)
         st == startPhase(reg.components, isStarted, order, failStart)
     IN IF ini.err.kind # "nil"
        THEN RunResult(reg, v.byType, inj.fv, isStarted, "initialize", ini.err,
                       ini.trace, <<>>)
        ELSE RunResult(reg, v.byType, inj.fv, st.started,
                       IF st.err.kind = "nil" THEN "done" ELSE "start",
                       st.err, ini.trace \o st.trace, order) :
         order \in getSortedComponents(reg.components, FALSE)}

RunInject(reg, v, fv, isStarted, failInit, failStart) ==
    LET inj == InjectDependencies(reg.components, reg.byName, v.byType, fv)
    IN IF inj.err.kind # "nil"
       THEN {RunResult(reg, v.byType, inj.fv, isStarted, "inject", inj.err, <<>>, <<>>)}
       ELSE RunLifecycle(reg, v, inj, isStarted, failInit, failStart)

RunOutcomes(builders, comps, byName, byType, fv, isStarted, failInit, failStart) ==
    LET reg == registerPendingBuilders(builders, comps, byName)
    IN IF reg.err.kind # "nil"
       THEN {RunResult(reg, byType, fv, isStarted, "register", reg.err, <<>>, <<>>)}
       ELSE UNION {IF v.err.kind # "nil"
                   THEN {RunResult(reg, v.byType, fv, isStarted, "validate", v.err,
                                   <<>>, <<>>)}
                   ELSE RunInject(reg, v, fv, isStarted, failInit, failStart) :
                       v \in validateTypeRegistrations(reg.components)}

(***************************************************************************)
(* Observations.                                                           *)
(***************************************************************************)
Obs(op, stage, err, trace) == [op |-> op, stage |-> stage, err |-> err, trace |-> trace]

NoStart == [order |-> <<>>, comps |-> <<>>]

\* the stages of Run, in order, and those completed when Run returns at a stage
Stages == <<"register", "validate", "inject", "initialize", "start", "done">>

StagesBefore(stage) ==
    {Stages[j] : j \in {q \in 1..Len(Stages) : \E r \in 1..Len(Stages) : q < r /\ Stages[r] = stage}}

\* sync.RWMutex, unlocked
Unlocked == [writer |-> FALSE, readers |-> {}]

\* a goroutine outside every call on the container; k is the position of the
\* loop of registerPendingBuilders while Run is in it
Idle == [at |-> "idle", k |-> 0]

(***************************************************************************)
(* Actions: the calls a program makes.                                     *)
(***************************************************************************)
\* boot.Object(instance): a builder with the defaults joins the pending list
Object(i) ==
    /\ Len(components) + Len(pendingBuilders) < MaxComponents
    /\ pendingBuilders' = Append(pendingBuilders, newObjectBuilder(i))
    /\ last' = Obs("Object", "", NoErr, <<>>)
    /\ UNCHANGED <<appVars, passed, mu, pc, components, componentsByName, componentsByType, started,
                   fields, fieldVal, lastStart>>

\* builder.Name(name)
Name(k, name) ==
    /\ k \in DOMAIN pendingBuilders
    /\ pendingBuilders' = [pendingBuilders EXCEPT ![k].name = name]
    /\ last' = Obs("Name", "", NoErr, <<>>)
    /\ UNCHANGED <<appVars, passed, mu, pc, components, componentsByName, componentsByType, started,
                   fields, fieldVal, lastStart>>

\* builder.Priority(priority)
Priority(k, priority) ==
    /\ k \in DOMAIN pendingBuilders
    /\ pendingBuilders' = [pendingBuilders EXCEPT ![k].priority = priority]
    /\ last' = Obs("Priority", "", NoErr, <<>>)
    /\ UNCHANGED <<appVars, passed, mu, pc, components, componentsByName, componentsByType, started,
                   fields, fieldVal, lastStart>>

\* builder.Export(typePtr): the type is appended, whatever the list holds
Export(k, t) ==
    /\ k \in DOMAIN pendingBuilders
    /\ Len(pendingBuilders[k].exportedTypes) < 1 + MaxExports
    /\ pendingBuilders' =
           [pendingBuilders EXCEPT ![k].exportedTypes = Append(@, t)]
    /\ last' = Obs("Export", "", NoErr, <<>>)
    /\ UNCHANGED <<appVars, passed, mu, pc, components, componentsByName, componentsByType, started,
                   fields, fieldVal, lastStart>>

\* builder.Primary()
Primary(k) ==
    /\ k \in DOMAIN pendingBuilders
    /\ pendingBuilders' = [pendingBuilders EXCEPT ![k].isPrimary = TRUE]
    /\ last' = Obs("Primary", "", NoErr, <<>>)
    /\ UNCHANGED <<appVars, passed, mu, pc, components, componentsByName, componentsByType, started,
                   fields, fieldVal, lastStart>>

\* Container.AutoRegister(instance): name and priority come from the instance's
\* own Name() and Priority(); the descriptor has no exported types
AutoRegister(i, name, priority) ==
    /\ Len(components) < MaxComponents
    /\ IF ~IsPtr(i) \/ i \notin ComponentImpls
       THEN /\ last' = Obs("AutoRegister", "", Err("not-a-component", "", "", "", <<>>), <<>>)
            /\ UNCHANGED <<components, componentsByName>>
       ELSE LET info == [Instance |-> i, InstanceType |-> Nil, Name |-> name,
                         Priority |-> priority, ExportedTypes |-> <<>>,
                         IsPrimary |-> FALSE]
                r == registerComponent(components, componentsByName, info)
            IN /\ components' = r.components
               /\ componentsByName' = r.byName
               /\ last' = Obs("AutoRegister", "", r.err, <<>>)
    /\ UNCHANGED <<appVars, passed, mu, pc, pendingBuilders, componentsByType, started, fields, fieldVal,
                   lastStart>>

\* Container.Run(ctx), by whichever caller
RunCall(failInit, failStart) ==
    \E out \in RunOutcomes(pendingBuilders, components, componentsByName,
                           componentsByType, fieldVal, started, failInit, failStart) :
        /\ pendingBuilders' = out.pending
        /\ components' = out.components
        /\ componentsByName' = out.byName
        /\ componentsByType' = out.byType
        /\ fieldVal' = out.fieldVal
        /\ started' = out.started
        /\ lastStart' = IF out.stage = "done"
                        THEN [order |-> out.startOrder, comps |-> out.components]
                        ELSE lastStart
        /\ last' = Obs("Run", out.stage, out.err, out.trace)
        /\ passed' = passed \cup StagesBefore(out.stage)
        /\ UNCHANGED <<fields, mu, pc>>

\* Container.Run(ctx) called by the program itself
Run(failInit, failStart) == RunCall(failInit, failStart) /\ UNCHANGED appVars

\* Container.InjectDependencies()
InjectDependenciesCall ==
    LET r == InjectDependencies(components, componentsByName, componentsByType, fieldVal)
    IN /\ fieldVal' = r.fv
       /\ last' = Obs("InjectDependencies", "", r.err, <<>>)
       /\ UNCHANGED <<appVars, passed, mu, pc, pendingBuilders, components, componentsByName,
                      componentsByType, started, fields, lastStart>>

\* Container.Initialize(ctx)
Initialize ==
    \E order \in getSortedComponents(components, FALSE),
       fail \in FailOne(Len(components)) :
        LET r == initializePhase(components, order, fail)
        IN /\ last' = Obs("Initialize", "", r.err, r.trace)
           /\ UNCHANGED <<appVars, passed, mu, pc, pendingBuilders, components, componentsByName,
                          componentsByType, started, fields, fieldVal, lastStart>>

\* Container.Start(ctx)
Start ==
    \E order \in getSortedComponents(components, FALSE),
       fail \in FailOne(Len(components)) :
        LET r == startPhase(components, started, order, fail)
        IN /\ started' = r.started
           /\ lastStart' = IF r.err.kind = "nil"
                           THEN [order |-> order, comps |-> components]
                           ELSE lastStart
           /\ last' = Obs("Start", "", r.err, r.trace)
           /\ UNCHANGED <<appVars, passed, mu, pc, pendingBuilders, components, componentsByName,
                          componentsByType, fields, fieldVal>>

\* Container.Stop(ctx), by whichever caller
StopCall ==
    \E order \in getSortedComponents(components, TRUE),
       fail \in FailSets(Len(components)) :
        LET r == stopPhase(components, started, order, fail)
        IN /\ started' = r.started
           /\ last' = Obs("Stop", IF started THEN "ran" ELSE "", r.err, r.trace)
           /\ UNCHANGED <<passed, mu, pc, pendingBuilders, components, componentsByName,
                          componentsByType, fields, fieldVal, lastStart>>

\* Container.Stop(ctx) called by the program itself
Stop == StopCall /\ UNCHANGED appVars

(***************************************************************************)
(* The programs: the tagged fields of each struct.  "z" is registered by   *)
(* value; its field F1 asks for an I by type.                              *)
(***************************************************************************)
Field(name, type, tag, canSet) ==
    [name |-> name, type |-> type, tag |-> tag, canSet |-> canSet]

Programs ==
    {[i \in Instances |->
         CASE i = "x" -> <<f1, f2>>
           [] i = "y" -> <<Field("G1", "I", "?", TRUE)>>
           [] OTHER -> <<Field("F1", "I", "", TRUE)>>] :
        f1 \in {Field("F1", "I", "", TRUE), Field("F1", "J", "required", FALSE)},
        f2 \in {Field("F2", "J", "Y,optional", TRUE), Field("F2", "*Y", "Y", TRUE),
                Field("F2", "I", "optional", TRUE)}}

PlainProgram ==
    [i \in Instances |->
        CASE i = "x" -> <<Field("F1", "I", "", TRUE), Field("F2", "J", "Y,optional", TRUE)>>
          [] i = "y" -> <<Field("G1", "I", "?", TRUE)>>
          [] OTHER -> <<Field("F1", "I", "", TRUE)>>]

InitWith(programs) ==
    /\ pendingBuilders = <<>>
    /\ components = <<>>
    /\ componentsByName = EmptyMap
    /\ componentsByType = EmptyMap
    /\ started = FALSE
    /\ fields \in programs
    /\ fieldVal = [i \in Instances |-> [k \in 1..Len(fields[i]) |-> Nil]]
    /\ mu = Unlocked
    /\ pc = [t \in Threads |-> Idle]
    /\ shutdownChan = 0
    /\ appPc = "idle"
    /\ requested = FALSE
    /\ stopCalls = 0
    /\ passed = {}
    /\ lastStart = NoStart
    /\ last = Obs("NewContainer", "", NoErr, <<>>)

\* an instance the program has not passed to Object yet
Fresh(i) == \A k \in DOMAIN pendingBuilders : pendingBuilders[k].instance # i

\* the pending builder k holds an instance whose type satisfies interface t
Satisfies(k, t) == k \in DOMAIN pendingBuilders /\ t \in Implements(pendingBuilders[k].instance)

(***************************************************************************)
(* The descriptor store: programs that queue builders under default and    *)
(* chosen names, register instances directly with AutoRegister, and call   *)
(* Run, any number of times and in any order.  No callback fails.          *)
(***************************************************************************)
Init == InitWith({PlainProgram})

Next ==
    \/ \E i \in Instances : Object(i)
    \/ \E k \in 1..MaxComponents, name \in Names : Name(k, name)
    \/ \E i \in Instances, name \in Names, priority \in Priorities :
           AutoRegister(i, name, priority)
    \/ Run({}, {})

Spec == Init /\ [][Next]_vars

(***************************************************************************)
(* Capability resolution: programs that queue each instance at most once,  *)
(* export interfaces the instance satisfies (any number of times) and set  *)
(* primary flags, before the first Run.  No callback fails.                *)
(***************************************************************************)
NextResolve ==
    \/ \E i \in Instances : components = <<>> /\ Fresh(i) /\ Object(i)
    \/ \E k \in 1..MaxComponents, t \in {"I", "J"} :
           components = <<>> /\ Satisfies(k, t) /\ Export(k, t)
    \/ \E k \in 1..MaxComponents : components = <<>> /\ Primary(k)
    \/ Run({}, {})

SpecResolve == Init /\ [][NextResolve]_vars

(***************************************************************************)
(* Injection: programs over every field layout of Programs that queue each *)
(* instance at most once and export I from any of them (the type of "z"    *)
(* does not satisfy I), with InjectDependencies also called on its own.    *)
(***************************************************************************)
InitInject == InitWith(Programs)

NextInject ==
    \/ \E i \in Instances : components = <<>> /\ Fresh(i) /\ Object(i)
    \/ \E k \in 1..MaxComponents : components = <<>> /\ Export(k, "I")
    \/ \E k \in 1..MaxComponents : components = <<>> /\ Primary(k)
    \/ Run({}, {})
    \/ InjectDependenciesCall

SpecInject == InitInject /\ [][NextInject]_vars

(***************************************************************************)
(* Lifecycle: programs that queue each instance at most once, with a       *)
(* priority, before the first Run and then drive the phases, with          *)
(* callbacks that may fail.                                                *)
(***************************************************************************)
NextLifecycle ==
    \/ \E i \in Instances : components = <<>> /\ Fresh(i) /\ Object(i)
    \/ \E k \in 1..MaxComponents, priority \in Priorities :
           components = <<>> /\ Priority(k, priority)
    \/ \E failInit, failStart \in FailOne(MaxComponents) : Run(failInit, failStart)
    \/ Initialize
    \/ Start
    \/ Stop

SpecLifecycle == Init /\ [][NextLifecycle]_vars

(***************************************************************************)
(* The stages of Run: programs that queue each instance at most once, may  *)
(* name it "Y" (the default name of "y"), export I from the instances that *)
(* satisfy it, and call Run with callbacks that may fail.                  *)
(***************************************************************************)
NextRun ==
    \/ \E i \in Instances : components = <<>> /\ Fresh(i) /\ Object(i)
    \/ \E k \in 1..MaxComponents : components = <<>> /\ Name(k, "Y")
    \/ \E k \in 1..MaxComponents :
           components = <<>> /\ Satisfies(k, "I") /\ Export(k, "I")
    \/ \E failInit, failStart \in FailOne(MaxComponents) : Run(failInit, failStart)

SpecRun == Init /\ [][NextRun]_vars

(***************************************************************************)
(* The directive grammar: "x" has one settable field of type J whose tag   *)
(* is any of DirectiveTags; programs queue one or two instances, give     *)
(* them names of DirectiveNames, export J from those that satisfy it, at   *)
(* most once, and call Run and InjectDependencies.                         *)
(***************************************************************************)
DirectiveTags ==
    {"", "required", "optional", "?", "Y", "Y,optional", "required,optional",
     ",optional", "optional,optional"}

DirectiveNames == {"Y", "required", ",optional"}

DirectivePrograms ==
    {[i \in Instances |-> IF i = "x" THEN <<Field("F1", "J", tag, TRUE)>> ELSE <<>>] :
        tag \in DirectiveTags}

InitDirective == InitWith(DirectivePrograms)

NextDirective ==
    \/ \E i \in Instances :
           components = <<>> /\ Len(pendingBuilders) < 2 /\ Fresh(i) /\ Object(i)
    \/ \E k \in 1..MaxComponents, name \in DirectiveNames :
           components = <<>> /\ Name(k, name)
    \/ \E k \in 1..MaxComponents :
           /\ components = <<>>
           /\ Satisfies(k, "J")
           /\ Len(pendingBuilders[k].exportedTypes) = 1
           /\ Export(k, "J")
    \/ Run({}, {})
    \/ InjectDependenciesCall

SpecDirective == InitDirective /\ [][NextDirective]_vars

(***************************************************************************)
(* The order of injection: "x" asks for a *Y and then for a J, "y" asks    *)
(* for an *X, all by type and required.  Programs queue each instance at   *)
(* most once, with a priority, export J from the instances that satisfy    *)
(* it, at most once each, and call Run and InjectDependencies.             *)
(***************************************************************************)
OrderProgram ==
    [i \in Instances |->
        CASE i = "x" -> <<Field("F1", "*Y", "", TRUE), Field("F2", "J", "", TRUE)>>
          [] i = "y" -> <<Field("G1", "*X", "", TRUE)>>
          [] OTHER -> <<>>]

InitInjectOrder == InitWith({OrderProgram})

NextInjectOrder ==
    \/ \E i \in Instances : components = <<>> /\ Fresh(i) /\ Object(i)
    \/ \E k \in 1..MaxComponents, priority \in Priorities :
           components = <<>> /\ Priority(k, priority)
    \/ \E k \in 1..MaxComponents :
           /\ components = <<>>
           /\ Satisfies(k, "J")
           /\ Len(pendingBuilders[k].exportedTypes) = 1
           /\ Export(k, "J")
    \/ Run({}, {})
    \/ InjectDependenciesCall

SpecInjectOrder == InitInjectOrder /\ [][NextInjectOrder]_vars

(***************************************************************************)
(* Validation again: programs that queue instances, each at most once at a *)
(* time, export I from those that satisfy it, at most once each, and set   *)
(* primary flags, before and after calls of Run.  No callback fails.       *)
(***************************************************************************)
NextRevalidate ==
    \/ \E i \in Instances : Fresh(i) /\ Object(i)
    \/ \E k \in 1..MaxComponents :
           /\ Satisfies(k, "I")
           /\ Len(pendingBuilders[k].exportedTypes) = 1
           /\ Export(k, "I")
    \/ \E k \in 1..MaxComponents :
           k \in DOMAIN pendingBuilders /\ ~pendingBuilders[k].isPrimary /\ Primary(k)
    \/ Run({}, {})

SpecRevalidate == Init /\ [][NextRevalidate]_vars

(***************************************************************************)
(* Goroutines.  One goroutine calls Run while others call GetByName and    *)
(* GetByType.  Run is cut into steps at each acquisition and release of    *)
(* Container.mu and at each write that is made without it:                 *)
(* registerComponent and InjectDependencies take mu.Lock, the readers and  *)
(* getSortedComponents take mu.RLock, validateTypeRegistrations takes      *)
(* nothing.  A read of the capability index that overlaps the unguarded    *)
(* writes is a data race: it can return what a lookup at any moment would, *)
(* miss the entry, or end the process with Go's fatal error for concurrent *)
(* map access.                                                             *)
(***************************************************************************)
At(t, at) == pc[t].at = at

Goto(t, at, k) == pc' = [pc EXCEPT ![t] = [at |-> at, k |-> k]]

\* the process has not died of a fatal error
Alive == last.err.kind # "fatal"

\* Run returns err from the given stage
RunReturns(stage, err, trace) ==
    /\ last' = Obs("Run", stage, err, trace)
    /\ passed' = passed \cup StagesBefore(stage)
    /\ Goto("run", "idle", 0)

\* Run is called and enters the loop of registerPendingBuilders
RunBegin ==
    /\ Alive /\ At("run", "idle")
    /\ Goto("run", "register", 1)
    /\ UNCHANGED <<appVars, pendingBuilders, components, componentsByName, componentsByType,
                   started, fields, fieldVal, mu, passed, lastStart, last>>

\* builder.register() -> registerComponent: c.mu.Lock()
RegisterLock ==
    /\ Alive /\ At("run", "register")
    /\ pc["run"].k <= Len(pendingBuilders)
    /\ ~mu.writer /\ mu.readers = {}
    /\ mu' = [mu EXCEPT !.writer = TRUE]
    /\ Goto("run", "registering", pc["run"].k)
    /\ UNCHANGED <<appVars, pendingBuilders, components, componentsByName, componentsByType,
                   started, fields, fieldVal, passed, lastStart, last>>

\* the body of registerComponent and its deferred c.mu.Unlock()
RegisterWrite ==
    /\ Alive /\ At("run", "registering")
    /\ LET r == registerComponent(components, componentsByName,
                                  BuilderInfo(pendingBuilders[pc["run"].k]))
       IN /\ components' = r.components
          /\ componentsByName' = r.byName
          /\ mu' = [mu EXCEPT !.writer = FALSE]
          /\ IF r.err.kind # "nil"
             THEN RunReturns("register", r.err, <<>>)
             ELSE /\ Goto("run", "register", pc["run"].k + 1)
                  /\ UNCHANGED <<passed, last>>
    /\ UNCHANGED <<appVars, pendingBuilders, componentsByType, started, fields, fieldVal, lastStart>>

\* the loop of registerPendingBuilders is over: pendingBuilders = nil
RegisterDone ==
    /\ Alive /\ At("run", "register")
    /\ pc["run"].k > Len(pendingBuilders)
    /\ pendingBuilders' = <<>>
    /\ Goto("run", "validate", 0)
    /\ UNCHANGED <<appVars, components, componentsByName, componentsByType, started, fields,
                   fieldVal, mu, passed, lastStart, last>>

\* validateTypeRegistrations, first statement: the index is replaced by an
\* empty map; no lock is taken
ValidateClear ==
    /\ Alive /\ At("run", "validate")
    /\ componentsByType' = EmptyMap
    /\ Goto("run", "validating", 0)
    /\ UNCHANGED <<appVars, pendingBuilders, components, componentsByName, started, fields,
                   fieldVal, mu, passed, lastStart, last>>

\* validateTypeRegistrations, the loop over the groups: the index is filled,
\* up to the first group that is rejected; no lock is held
ValidateBuild ==
    /\ Alive /\ At("run", "validating")
    /\ \E v \in validateTypeRegistrations(components) :
           /\ componentsByType' = v.byType
           /\ IF v.err.kind # "nil"
              THEN RunReturns("validate", v.err, <<>>)
              ELSE /\ Goto("run", "inject", 0)
                   /\ UNCHANGED <<passed, last>>
    /\ UNCHANGED <<appVars, pendingBuilders, components, componentsByName, started, fields,
                   fieldVal, mu, lastStart>>

\* InjectDependencies: c.mu.Lock()
InjectLock ==
    /\ Alive /\ At("run", "inject")
    /\ ~mu.writer /\ mu.readers = {}
    /\ mu' = [mu EXCEPT !.writer = TRUE]
    /\ Goto("run", "injecting", 0)
    /\ UNCHANGED <<appVars, pendingBuilders, components, componentsByName, componentsByType,
                   started, fields, fieldVal, passed, lastStart, last>>

\* the body of InjectDependencies and its deferred c.mu.Unlock()
InjectWrite ==
    /\ Alive /\ At("run", "injecting")
    /\ LET r == InjectDependencies(components, componentsByName, componentsByType,
                                   fieldVal)
       IN /\ fieldVal' = r.fv
          /\ mu' = [mu EXCEPT !.writer = FALSE]
          /\ IF r.err.kind # "nil"
             THEN RunReturns("inject", r.err, <<>>)
             ELSE /\ Goto("run", "lifecycle", 0)
                  /\ UNCHANGED <<passed, last>>
    /\ UNCHANGED <<appVars, pendingBuilders, components, componentsByName, componentsByType,
                   started, fields, lastStart>>

\* Initialize and Start, and the return of Run; getSortedComponents copies
\* the list under c.mu.RLock(), which no writer holds here
InitializeAndStart(failInit, failStart) ==
    /\ Alive /\ At("run", "lifecycle")
    /\ ~mu.writer
    /\ \E out \in RunLifecycle([pending |-> pendingBuilders, components |-> components,
                                byName |-> componentsByName],
                               [byType |-> componentsByType], [fv |-> fieldVal],
                               started, failInit, failStart) :
           /\ started' = out.started
           /\ lastStart' = IF out.stage = "done"
                           THEN [order |-> out.startOrder, comps |-> out.components]
                           ELSE lastStart
           /\ RunReturns(out.stage, out.err, out.trace)
    /\ UNCHANGED <<appVars, pendingBuilders, components, componentsByName, componentsByType,
                   fields, fieldVal, mu>>

\* GetByName and GetByType, first statement: c.mu.RLock()
RLock(r, call) ==
    /\ Alive /\ At(r, "idle")
    /\ ~mu.writer
    /\ mu' = [mu EXCEPT !.readers = @ \cup {r}]
    /\ Goto(r, call, 0)
    /\ UNCHANGED <<appVars, pendingBuilders, components, componentsByName, componentsByType,
                   started, fields, fieldVal, passed, lastStart, last>>

\* what a reader returns: the error, and the instance as the trace
Returned(op, res) == Obs(op, "", res.err, <<res.dep>>)

\* GetByName, the lookup and the deferred c.mu.RUnlock(); every write of the
\* name index is made under mu.Lock, so the lookup sees the index as it is
GetByName(r, name) ==
    /\ Alive /\ At(r, "GetByName")
    /\ last' = Returned("GetByName", getByNameUnsafe(componentsByName, name))
    /\ mu' = [mu EXCEPT !.readers = @ \ {r}]
    /\ Goto(r, "idle", 0)
    /\ UNCHANGED <<appVars, pendingBuilders, components, componentsByName, componentsByType,
                   started, fields, fieldVal, passed, lastStart>>

\* the lookups that a read of the capability index can make while
\* validateTypeRegistrations is writing it
racingLookups(byType, t) ==
    {getByTypeUnsafe(byType, t),
     getByTypeUnsafe(EmptyMap, t),
     [dep |-> Nil, err |-> Err("fatal", "", "", t, <<>>)]}

\* GetByType, the lookup and the deferred c.mu.RUnlock()
GetByType(r, t) ==
    /\ Alive /\ At(r, "GetByType")
    /\ \E res \in IF At("run", "validate") \/ At("run", "validating")
                  THEN racingLookups(componentsByType, t)
                  ELSE {getByTypeUnsafe(componentsByType, t)} :
           last' = Returned("GetByType", res)
    /\ mu' = [mu EXCEPT !.readers = @ \ {r}]
    /\ Goto(r, "idle", 0)
    /\ UNCHANGED <<appVars, pendingBuilders, components, componentsByName, componentsByType,
                   started, fields, fieldVal, passed, lastStart>>

\* the types and names that the readers ask for
LookupTypes == {"*X", "I"}

LookupNames == {"X"}

(***************************************************************************)
(* Concurrent use: a program queues builders and exports an interface      *)
(* while no Run is in progress, one goroutine calls Run, any number of     *)
(* times, and the reader goroutines call GetByName and GetByType at any    *)
(* moment.  No callback fails.                                             *)
(***************************************************************************)
NextConcurrent ==
    \/ \E i \in Instances : At("run", "idle") /\ Alive /\ Fresh(i) /\ Object(i)
    \/ \E k \in 1..MaxComponents :
           /\ At("run", "idle") /\ Alive /\ Satisfies(k, "I")
           /\ Len(pendingBuilders[k].exportedTypes) = 1
           /\ Export(k, "I")
    \/ RunBegin
    \/ RegisterLock
    \/ RegisterWrite
    \/ RegisterDone
    \/ ValidateClear
    \/ ValidateBuild
    \/ InjectLock
    \/ InjectWrite
    \/ InitializeAndStart({}, {})
    \/ \E r \in Readers, call \in {"GetByName", "GetByType"} : RLock(r, call)
    \/ \E r \in Readers, name \in LookupNames : GetByName(r, name)
    \/ \E r \in Readers, t \in LookupTypes : GetByType(r, t)

SpecConcurrent == Init /\ [][NextConcurrent]_vars

(***************************************************************************)
(* RunApplication and Shutdown (the package-level API).  shutdownChan is a *)
(* channel of capacity 1; Shutdown sends on it in a select with a default  *)
(* case, RunApplication receives from it, or from the channel of OS        *)
(* signals, in a select after Run has succeeded.  Fatalf ends the process. *)
(***************************************************************************)
\* cap(shutdownChan)
ShutdownChanCap == 1

\* a variant of Shutdown that sends without a default case: it waits while
\* the buffer is full; the property of Shutdown must not hold of it
ShutdownBlocking ==
    /\ shutdownChan < ShutdownChanCap
    /\ shutdownChan' = shutdownChan + 1
    /\ requested' = TRUE
    /\ UNCHANGED <<pendingBuilders, components, componentsByName, componentsByType,
                   started, fields, fieldVal, mu, pc, appPc, stopCalls, passed,
                   lastStart, last>>

\* Shutdown(): the value is buffered when there is room and dropped otherwise
Shutdown ==
    /\ shutdownChan' = IF shutdownChan < ShutdownChanCap THEN shutdownChan + 1
                       ELSE shutdownChan
    /\ requested' = TRUE
    /\ UNCHANGED <<pendingBuilders, components, componentsByName, componentsByType,
                   started, fields, fieldVal, mu, pc, appPc, stopCalls, passed,
                   lastStart, last>>

\* RunApplication up to its select: Run, then Fatalf when Run failed
RunApplicationRun(failInit, failStart) ==
    /\ appPc = "idle"
    /\ RunCall(failInit, failStart)
    /\ appPc' = IF last'.err.kind = "nil" THEN "wait" ELSE "fatal"
    /\ UNCHANGED <<shutdownChan, requested, stopCalls>>

\* the select of RunApplication: case <-shutdownChan
ReceiveShutdown ==
    /\ appPc = "wait"
    /\ shutdownChan > 0
    /\ shutdownChan' = shutdownChan - 1
    /\ appPc' = "stopping"
    /\ UNCHANGED <<pendingBuilders, components, componentsByName, componentsByType,
                   started, fields, fieldVal, mu, pc, requested, stopCalls, passed,
                   lastStart, last>>

\* the select of RunApplication: case <-sigChan, when the OS delivers SIGINT
\* or SIGTERM
ReceiveSignal ==
    /\ appPc = "wait"
    /\ appPc' = "stopping"
    /\ UNCHANGED <<pendingBuilders, components, componentsByName, componentsByType,
                   started, fields, fieldVal, mu, pc, shutdownChan, requested,
                   stopCalls, passed, lastStart, last>>

\* RunApplication after its select: Stop, whose error is only logged
RunApplicationStop ==
    /\ appPc = "stopping"
    /\ StopCall
    /\ appPc' = "returned"
    /\ stopCalls' = stopCalls + 1
    /\ UNCHANGED <<shutdownChan, requested>>

(***************************************************************************)
(* The application: a program queues instances, each at most once, exports *)
(* I from those that satisfy it, at most once each, and calls              *)
(* RunApplication once; Shutdown is called any number of times, at any     *)
(* moment, and OS signals may arrive.  Start and Stop callbacks may fail;  *)
(* every callback returns.                                                 *)
(***************************************************************************)
NextApplication ==
    \/ \E i \in Instances : appPc = "idle" /\ Fresh(i) /\ Object(i)
    \/ \E k \in 1..MaxComponents :
           /\ appPc = "idle"
           /\ Satisfies(k, "I")
           /\ Len(pendingBuilders[k].exportedTypes) = 1
           /\ Export(k, "I")
    \/ Shutdown
    \/ \E failStart \in FailOne(MaxComponents) : RunApplicationRun({}, failStart)
    \/ ReceiveShutdown
    \/ ReceiveSignal
    \/ RunApplicationStop

SpecApplication == Init /\ [][NextApplication]_vars

\* the goroutine of RunApplication goes on whenever it can: a select with a
\* ready case is taken, and Stop returns
SpecApplicationLive ==
    /\ SpecApplication
    /\ WF_vars(ReceiveShutdown)
    /\ WF_vars(RunApplicationStop)

(***************************************************************************)
(* Vocabulary of the properties.                                           *)
(***************************************************************************)
AllTypes == {"*X", "*Y", "Z", "I", "J"}

\* the descriptors (positions) that export capability c, and the primary ones
Providers(c) == {k \in DOMAIN components : c \in Range(components[k].ExportedTypes)}

PrimaryProviders(c) == {k \in Providers(c) : components[k].IsPrimary}

NamesOfSet(S) == {components[k].Name : k \in S}

\* the last call was a Run that got to validateTypeRegistrations
ValidationRan == last.op = "Run" /\ last.stage # "register"

ValidationOk == ValidationRan /\ last.stage # "validate"

\* validateTypeRegistrations did not reject c, and the index it completed maps c to d
ResolvedTo(c, k) ==
    /\ ~(last.stage = "validate" /\ last.err.type = c)
    /\ ValidationOk => c \in DOMAIN componentsByType /\ componentsByType[c] = components[k]

(***************************************************************************)
(* C1: a capability exported by two or more components of which exactly    *)
(* one is primary is accepted by validateTypeRegistrations, and the index  *)
(* maps it to the primary component.                                       *)
(***************************************************************************)
C1_PrimaryProviderWins ==
    ValidationRan =>
        \A c \in AllTypes :
            Cardinality(Providers(c)) >= 2 /\ Cardinality(PrimaryProviders(c)) = 1
                => \A k \in PrimaryProviders(c) : ResolvedTo(c, k)

(***************************************************************************)
(* C2: a capability exported by exactly one component is accepted by       *)
(* validateTypeRegistrations and mapped to that component, primary or not, *)
(* whatever its export list.                                               *)
(***************************************************************************)
C2_SoleProviderWins ==
    ValidationRan =>
        \A c \in AllTypes :
            Cardinality(Providers(c)) = 1 => \A k \in Providers(c) : ResolvedTo(c, k)

(***************************************************************************)
(* C3: for a capability c with two or more providers, none primary makes   *)
(* validateTypeRegistrations fail with an ambiguity error listing all      *)
(* providers of c, two or more primaries make it fail with a               *)
(* conflicting-primary error listing exactly the primaries of c; Run       *)
(* returns the error without reaching injection.  It is stated for export *)
(* lists without repetition, where a provider has one entry in the group.  *)
(***************************************************************************)
NoRepeatedExport ==
    \A k \in DOMAIN components :
        Len(components[k].ExportedTypes) = Cardinality(Range(components[k].ExportedTypes))

Offending(c) == Cardinality(Providers(c)) >= 2 /\ Cardinality(PrimaryProviders(c)) # 1

StoppedAtValidation == last.stage = "validate" /\ last.trace = <<>>

C3_ErrorIsAboutEachOffender ==
    (ValidationRan /\ NoRepeatedExport) =>
        \A c \in AllTypes :
            Offending(c) =>
                /\ StoppedAtValidation
                /\ PrimaryProviders(c) = {} =>
                       /\ last.err.kind = "ambiguous"
                       /\ Range(last.err.names) = NamesOfSet(Providers(c))
                /\ PrimaryProviders(c) # {} =>
                       /\ last.err.kind = "conflict"
                       /\ Range(last.err.names) = NamesOfSet(PrimaryProviders(c))

(***************************************************************************)
(* C3, as the code has it: when some capability has two or more providers  *)
(* and not exactly one primary, validateTypeRegistrations fails; its error *)
(* is about one capability that it rejects, whichever the iteration over   *)
(* the map of groups meets first: an ambiguity error listing the providers *)
(* of that capability when none of them is primary, a conflicting-primary  *)
(* error listing its primary providers otherwise.  Run returns the error   *)
(* and no field is injected, no callback invoked.                          *)
(***************************************************************************)
ErrorIsAbout(c) ==
    /\ last.err.type = c
    /\ Providers(c) # {}
    /\ IF PrimaryProviders(c) = {}
       THEN /\ last.err.kind = "ambiguous"
            /\ Range(last.err.names) = NamesOfSet(Providers(c))
       ELSE /\ last.err.kind = "conflict"
            /\ Range(last.err.names) = NamesOfSet(PrimaryProviders(c))

RejectedRun ==
    /\ StoppedAtValidation
    /\ \E c \in AllTypes : ErrorIsAbout(c)

C3_ErrorIsAboutSomeRejected ==
    [][(ValidationRan /\ \E c \in AllTypes : Offending(c))' =>
           RejectedRun' /\ fieldVal' = fieldVal /\ started' = started]_vars

\* a Run rejected while two capabilities offend
C3_TwoOffenders ==
    /\ ValidationRan
    /\ last.stage = "validate"
    /\ \E c, d \in AllTypes : c # d /\ Offending(c) /\ Offending(d)

(***************************************************************************)
(* C4: registerComponent called with a name that is already in the store   *)
(* returns an error and leaves the list and the name index as they were:   *)
(* for AutoRegister the whole store is unchanged, and a Run whose          *)
(* registration fails on a name leaves the descriptor that held the name   *)
(* in place, alone under that name.                                        *)
(***************************************************************************)
HoldersOf(comps, name) == {k \in DOMAIN comps : comps[k].Name = name}

AutoRegisterDuplicate ==
    \A i \in Instances, name \in Names, priority \in Priorities :
        (/\ AutoRegister(i, name, priority)
         /\ IsPtr(i) /\ i \in ComponentImpls
         /\ name \in DOMAIN componentsByName)
            => /\ last'.err.kind = "duplicate"
               /\ components' = components
               /\ componentsByName' = componentsByName

RunDuplicate ==
    (last'.op = "Run" /\ last'.stage = "register") =>
        LET name == last'.err.comp
        IN /\ last'.err.kind = "duplicate"
           /\ SubSeq(components', 1, Len(components)) = components
           /\ Cardinality(HoldersOf(components', name)) = 1
           /\ name \in DOMAIN componentsByName'
           /\ \A k \in HoldersOf(components', name) : componentsByName'[name] = components'[k]
           /\ name \in DOMAIN componentsByName => componentsByName'[name] = componentsByName[name]
           /\ DOMAIN componentsByName' = {components'[k].Name : k \in DOMAIN components'}

C4_DuplicateNameRejected == [][AutoRegisterDuplicate /\ RunDuplicate]_vars

\* a duplicate name was rejected while the store held two descriptors
C4_DuplicateSeen ==
    /\ last.err.kind = "duplicate"
    /\ Len(components) >= 2

(***************************************************************************)
(* Lifecycle vocabulary: the positions a phase visited, in order.          *)
(***************************************************************************)
Visits(trace, phase) ==
    LET sel == SelectSeq(trace, LAMBDA e : e.phase = phase)
    IN [j \in 1..Len(sel) |-> sel[j].idx]

\* v goes by non-increasing priority, ties in registration order
StableDescending(v) ==
    \A a, b \in 1..Len(v) :
        a < b => \/ components[v[a]].Priority > components[v[b]].Priority
                 \/ /\ components[v[a]].Priority = components[v[b]].Priority
                    /\ v[a] < v[b]

(***************************************************************************)
(* C5: Initialize and Start visit the components in order of               *)
(* non-increasing priority, components of equal priority in the order of   *)
(* their registration.                                                     *)
(***************************************************************************)
C5_StablePriorityOrder ==
    last.op \in {"Initialize", "Start", "Run"} =>
        /\ StableDescending(Visits(last.trace, "init"))
        /\ StableDescending(Visits(last.trace, "start"))

(***************************************************************************)
(* C6: Stop visits the components in the exact reverse of the order the    *)
(* preceding Start visited them, components of equal priority included.    *)
(***************************************************************************)
C6_StopReversesStart ==
    (last.op = "Stop" /\ last.stage = "ran" /\ lastStart.comps = components) =>
        Visits(last.trace, "stop") = Reverse(lastStart.order)

(***************************************************************************)
(* C7: when an Init or Start callback returns an error, the phase returns  *)
(* at once with an error naming the component: the failing callback is the *)
(* last one invoked, and the started flag is not set (it keeps its value,  *)
(* which is false when Start fails).                                       *)
(***************************************************************************)
PhaseFailed == last.op \in {"Initialize", "Start", "Run"} /\ last.err.kind \in {"init", "start"}

AbortedAtFailure ==
    LET n == Len(last.trace)
        v == Visits(last.trace, last.err.kind)
    IN /\ n >= 1
       /\ last.trace[n].failed
       /\ last.trace[n].phase = last.err.kind
       /\ components[last.trace[n].idx].Name = last.err.comp
       /\ \A j \in 1..(n - 1) : ~last.trace[j].failed
       /\ \A a, b \in 1..Len(v) : a # b => v[a] # v[b]

C7_PhaseAbortsAtFirstFailure ==
    [][PhaseFailed' =>
           /\ AbortedAtFailure'
           /\ started' = started
           /\ last'.err.kind = "start" => ~started']_vars

\* a Start callback failed and a component with a Start callback was spared
C7_LaterCallbackSpared ==
    /\ PhaseFailed
    /\ last.err.kind = "start"
    /\ ~started
    /\ \E k \in DOMAIN components :
           /\ components[k].Instance \in Startable
           /\ k \notin Range(Visits(last.trace, "start"))

(***************************************************************************)
(* C8: Stop on a started container invokes the Stop callback of every      *)
(* Stoppable component exactly once, whatever fails, and the error it      *)
(* returns reports every component whose callback failed.                  *)
(***************************************************************************)
Reported(err) == IF err.kind = "nil" THEN {} ELSE {err.comp} \cup Range(err.names)

C8_StopReportsEveryFailure ==
    (last.op = "Stop" /\ last.stage = "ran") =>
        /\ \A k \in DOMAIN components :
               components[k].Instance \in Stoppable =>
                   Cardinality({j \in DOMAIN last.trace :
                                   last.trace[j].idx = k /\ last.trace[j].called}) = 1
        /\ \A j \in DOMAIN last.trace :
               last.trace[j].failed =>
                   components[last.trace[j].idx].Name \in Reported(last.err)

(***************************************************************************)
(* Injection vocabulary.  The directives are classed as the documentation  *)
(* classes them, not by isOptionalTag.                                     *)
(***************************************************************************)
RequiredTags == {"", "required", "Y"}

OptionalTags == {"optional", "?", "Y,optional"}

\* the tagged fields of the registered components: <<position, field number>>
TaggedFields ==
    UNION {{<<k, j>> : j \in DOMAIN fields[components[k].Instance]} :
               k \in DOMAIN components}

FieldOf(kj) == fields[components[kj[1]].Instance][kj[2]]

ValueOf(kj) == fieldVal[components[kj[1]].Instance][kj[2]]

\* the store has what the directive of the field asks for
Resolvable(f) ==
    IF f.tag \in {"", "required", "optional", "?"}
    THEN f.type \in DOMAIN componentsByType
    ELSE "Y" \in DOMAIN componentsByName

\* the last call ran the injection stage; it returned without error
InjectionRan ==
    \/ last.op = "InjectDependencies"
    \/ last.op = "Run" /\ last.stage \notin {"register", "validate"}

InjectionOk ==
    /\ InjectionRan
    /\ last.op = "InjectDependencies" => last.err.kind = "nil"
    /\ last.op = "Run" => last.stage # "inject"

UnresolvedRequired == {kj \in TaggedFields : FieldOf(kj).tag \in RequiredTags /\ ~Resolvable(FieldOf(kj))}

UnresolvedOptional == {kj \in TaggedFields : FieldOf(kj).tag \in OptionalTags /\ ~Resolvable(FieldOf(kj))}

(***************************************************************************)
(* C9: a field with a required directive whose capability or name cannot   *)
(* be resolved makes InjectDependencies fail with an error naming the      *)
(* field and the component; a field with an optional directive that cannot *)
(* be resolved is left as it was and raises no error, so that injection    *)
(* succeeds when no required field is unresolved.                          *)
(***************************************************************************)
C9_RequiredFailsOptionalSkips ==
    [][InjectionRan' =>
           /\ (UnresolvedRequired # {})' =>
                  (/\ last.err.kind = "inject"
                   /\ \E kj \in UnresolvedRequired :
                          /\ last.err.comp = components[kj[1]].Name
                          /\ last.err.field = FieldOf(kj).name)'
           /\ (UnresolvedRequired = {})' => InjectionOk'
           /\ \A kj \in UnresolvedOptional' :
                  LET i == components'[kj[1]].Instance
                  IN fieldVal'[i][kj[2]] = fieldVal[i][kj[2]]]_vars

(***************************************************************************)
(* C10: after InjectDependencies returns without error, every field with a *)
(* required directive of every registered component holds a registered     *)
(* instance that satisfies the declared type of the field: none is nil,    *)
(* fields that cannot be set and instances registered by value included.   *)
(***************************************************************************)
C10_RequiredFieldsBound ==
    InjectionOk =>
        \A kj \in TaggedFields :
            FieldOf(kj).tag \in RequiredTags =>
                /\ ValueOf(kj) # Nil
                /\ \E k \in DOMAIN components : components[k].Instance = ValueOf(kj)
                /\ AssignableTo(ValueOf(kj), FieldOf(kj).type)

(***************************************************************************)
(* C13: Stop on a container whose started flag is false returns nil,       *)
(* invokes no Stop callback and changes nothing in the container.          *)
(***************************************************************************)
ContainerUnchanged ==
    UNCHANGED <<pendingBuilders, components, componentsByName, componentsByType,
                started, fields, fieldVal, mu, pc>>

C13_StopWhenNotStarted ==
    [][(last'.op = "Stop" /\ ~started) =>
           /\ last'.err = NoErr
           /\ last'.trace = <<>>
           /\ ContainerUnchanged]_vars

\* Stop was called on a container that had been started and stopped before,
\* with a component that has a Stop callback
C13_StopIgnored ==
    /\ last.op = "Stop"
    /\ last.stage = ""
    /\ ~started
    /\ lastStart # NoStart
    /\ \E k \in DOMAIN components : components[k].Instance \in Stoppable

(***************************************************************************)
(* C14: Start on a container that is started returns an error, invokes no  *)
(* Start callback and leaves started true (also when it is Run that calls  *)
(* Start); Start on a container that is not started, as it is after a      *)
(* Stop, is accepted.                                                      *)
(***************************************************************************)
C14_StartTwiceRejected ==
    [][/\ (last'.op = "Start" /\ started) =>
              /\ last'.err.kind = "already-started"
              /\ last'.trace = <<>>
              /\ ContainerUnchanged
       /\ (last'.op = "Run" /\ started) =>
              /\ last'.stage # "done"
              /\ last'.stage = "start" => last'.err.kind = "already-started"
              /\ \A j \in DOMAIN last'.trace : last'.trace[j].phase # "start"
              /\ started'
       /\ (last'.op = "Start" /\ ~started) => last'.err.kind # "already-started"
       /\ (last.op = "Stop" /\ last'.op = "Start") =>
              /\ last'.err.kind # "already-started"
              /\ last'.err.kind = "nil" => started']_vars

\* a second Start was rejected on a container with a Start callback to invoke
C14_SecondStartSeen ==
    /\ last.op = "Start"
    /\ last.err.kind = "already-started"
    /\ started
    /\ \E k \in DOMAIN components : components[k].Instance \in Startable

(***************************************************************************)
(* C15: Run commits the pending batch atomically: when a builder of the    *)
(* batch fails to register, the store holds none of the batch's            *)
(* descriptors afterwards; when all register, the store holds them all,    *)
(* appended in the order of the batch.                                     *)
(***************************************************************************)
BatchInfos == [k \in 1..Len(pendingBuilders) |-> BuilderInfo(pendingBuilders[k])]

C15_BatchIsAtomic ==
    [][last'.op = "Run" =>
           IF last'.stage = "register"
           THEN components' = components /\ componentsByName' = componentsByName
           ELSE components' = components \o BatchInfos]_vars

(***************************************************************************)
(* C16: once a Run has committed the pending batch, every later            *)
(* registration attempt (a Run with newly queued builders, AutoRegister)   *)
(* is rejected with an error and the descriptors stay as they were.        *)
(***************************************************************************)
Finalized == "register" \in passed

C16_NoRegistrationAfterFinalize ==
    [][Finalized =>
           /\ components' = components
           /\ componentsByName' = componentsByName
           /\ last'.op = "AutoRegister" => last'.err.kind # "nil"
           /\ (last'.op = "Run" /\ pendingBuilders # <<>>) =>
                  last'.stage = "register" /\ last'.err.kind # "nil"]_vars

(***************************************************************************)
(* C18: every descriptor in the store, whether ObjectBuilder.register or   *)
(* AutoRegister created it, exports at least the concrete type of its      *)
(* instance.                                                               *)
(***************************************************************************)
C18_OwnTypeExported ==
    \A k \in DOMAIN components :
        TypeOf(components[k].Instance) \in Range(components[k].ExportedTypes)

(***************************************************************************)
(* C19: in every state after the first successful resolution the           *)
(* capability index reflects the descriptors of the store: it maps c to d  *)
(* if and only if d is a registered descriptor that is the only provider   *)
(* of c or its only primary provider.                                      *)
(***************************************************************************)
Resolved == "validate" \in passed

Elected(c) == {k \in Providers(c) : Providers(c) = {k} \/ PrimaryProviders(c) = {k}}

C19_IndexReflectsStore ==
    Resolved =>
        \A c \in AllTypes :
            /\ c \in DOMAIN componentsByType =>
                   \E k \in Elected(c) : componentsByType[c] = components[k]
            /\ \A k \in Elected(c) :
                   c \in DOMAIN componentsByType /\ componentsByType[c] = components[k]

(***************************************************************************)
(* C20: Run goes through register, validate, inject, initialize, start in  *)
(* that order and returns at the first stage that fails: a failed          *)
(* validation leaves every field as it was and invokes no callback, a      *)
(* failed injection invokes no Init or Start callback, a failed            *)
(* initialization invokes no Start callback, and started becomes true only *)
(* when every stage succeeded.                                             *)
(***************************************************************************)
\* a required field that injection resolves and that the store cannot serve
InjectionMustFail ==
    \E kj \in UnresolvedRequired :
        IsPtr(components[kj[1]].Instance) /\ FieldOf(kj).canSet

StageOfError(kind) ==
    CASE kind = "duplicate" -> "register"
      [] kind \in {"ambiguous", "conflict"} -> "validate"
      [] kind \in {"inject", "panic"} -> "inject"
      [] kind = "init" -> "initialize"
      [] kind \in {"start", "already-started"} -> "start"
      [] OTHER -> "done"

C20_RunStagesInOrder ==
    [][last'.op = "Run" =>
           LET stage == last'.stage
               trace == last'.trace
           IN /\ stage = StageOfError(last'.err.kind)
              /\ stage = "register" =>
                     componentsByType' = componentsByType /\ fieldVal' = fieldVal
              /\ stage = "validate" => fieldVal' = fieldVal
              /\ stage \in {"register", "validate", "inject"} => trace = <<>>
              /\ stage = "initialize" =>
                     \A j \in DOMAIN trace : trace[j].phase = "init"
              /\ stage # "done" => started' = started
              /\ stage = "done" => started'
              /\ \A a, b \in DOMAIN trace :
                     (trace[a].phase = "start" /\ trace[b].phase = "init") => b < a
              /\ \A a, b \in DOMAIN trace :
                     (trace[a].failed /\ trace[a].phase = "init") => trace[b].phase = "init"
              /\ (stage # "register" /\ \E c \in AllTypes : Offending(c)') =>
                     stage = "validate"
              /\ (stage \notin {"register", "validate"} /\ InjectionMustFail') =>
                     stage = "inject"]_vars

\* a Run whose initialization failed while a component with a Start callback
\* and fields that injection had bound were in the store
C20_InitFailedAfterInjection ==
    /\ last.op = "Run"
    /\ last.stage = "initialize"
    /\ ~started
    /\ \E k \in DOMAIN components : components[k].Instance \in Startable
    /\ \E i \in Instances, j \in {1, 2} : j \in DOMAIN fieldVal[i] /\ fieldVal[i][j] # Nil

(***************************************************************************)
(* The directive of a tag, as a table: what it resolves by (the declared   *)
(* type of the field, or a component name) and whether it is optional.     *)
(* DirectiveAsClaimed takes every "<name>,optional" by name;               *)
(* DirectiveAsCoded takes "required,optional" by type.                     *)
(***************************************************************************)
Directive(by, name, optional) == [by |-> by, name |-> name, optional |-> optional]

DirectiveAsClaimed(tag) ==
    CASE tag \in {"optional", "?"} -> Directive("type", "", TRUE)
      [] tag = "Y,optional" -> Directive("name", "Y", TRUE)
      [] tag = "required,optional" -> Directive("name", "required", TRUE)
      [] tag = "optional,optional" -> Directive("name", "optional", TRUE)
      [] tag \in {"", "required"} -> Directive("type", "", FALSE)
      [] OTHER -> Directive("name", tag, FALSE)

DirectiveAsCoded(tag) ==
    IF tag = "required,optional" THEN Directive("type", "", TRUE)
    ELSE DirectiveAsClaimed(tag)

\* what a store has for a directive on a field of type t: the instance the
\* index has for t, or the instance of the named component when its type
\* fits t; Nil for none
TargetIn(byName, byType, d, t) ==
    IF d.by = "type"
    THEN IF t \in DOMAIN byType THEN byType[t].Instance ELSE Nil
    ELSE IF d.name \in DOMAIN byName /\ AssignableTo(byName[d.name].Instance, t)
         THEN byName[d.name].Instance
         ELSE Nil

Target(d, t) == TargetIn(componentsByName, componentsByType, d, t)

\* the fields that injection resolves
Visited == {kj \in TaggedFields : IsPtr(components[kj[1]].Instance) /\ FieldOf(kj).canSet}

\* the call returned the error of injection for field kj
FailedOn(kj) ==
    /\ last.err.kind = "inject"
    /\ last.err.comp = components[kj[1]].Name
    /\ last.err.field = FieldOf(kj).name

\* The step injected the visited field kj as directive d asks: bound to the
\* target, left as it was without error when there is none and d is optional,
\* refused with an error when there is none and d is required.  (A target that
\* the index has but that does not fit the field makes reflect's Set panic.)
InjectedAs(kj, D(_)) ==
    LET i == components'[kj[1]].Instance
        f == fields[i][kj[2]]
        d == D(f.tag)
        target == TargetIn(componentsByName', componentsByType', d, f.type)
    IN IF target # Nil
       THEN IF AssignableTo(target, f.type)
            THEN fieldVal'[i][kj[2]] = target /\ InjectionOk'
            ELSE last'.err.kind = "panic"
       ELSE /\ fieldVal'[i][kj[2]] = fieldVal[i][kj[2]]
            /\ IF d.optional THEN InjectionOk' ELSE FailedOn(kj)'

(***************************************************************************)
(* C11: the directive of a field is classed by the grammar: "optional" and *)
(* "?" by type, optional; "<name>,optional" by the name <name>, optional,  *)
(* for every non-empty <name>, "required" included; "" and "required" by   *)
(* type, required; any other string by that name, required.                *)
(***************************************************************************)
C11_GrammarAsClaimed ==
    [][InjectionRan' =>
           \A kj \in Visited' : InjectedAs(kj, DirectiveAsClaimed)]_vars

(***************************************************************************)
(* C11, as the code has it: the same grammar, except that                  *)
(* "required,optional" resolves by the declared type of the field and is   *)
(* optional ("required" is never taken as a component name).               *)
(***************************************************************************)
C11_GrammarAsCoded ==
    [][InjectionRan' =>
           \A kj \in Visited' : InjectedAs(kj, DirectiveAsCoded)]_vars

\* injection ran on a field tagged "required,optional" with a component named
\* "required" whose type fits the field, and no provider of the type
C11_RequiredOptionalSeen ==
    /\ InjectionOk
    /\ \E kj \in Visited :
           /\ FieldOf(kj).tag = "required,optional"
           /\ Target(DirectiveAsClaimed("required,optional"), FieldOf(kj).type) # Nil
           /\ Target(DirectiveAsCoded("required,optional"), FieldOf(kj).type) = Nil
           /\ ValueOf(kj) = Nil

(***************************************************************************)
(* By-name directives whose component exists.  Fits(info, t) is the test   *)
(* that decides whether the field may be bound to the component.           *)
(***************************************************************************)
ExportsType(info, t) == t \in Range(info.ExportedTypes)

InstanceFits(info, t) == AssignableTo(info.Instance, t)

\* the step handled the visited field kj as a type mismatch on its named
\* component: the field is left as it was, with the error of injection when
\* the directive is required and without error when it is optional
MismatchOn(kj, d) ==
    LET i == components'[kj[1]].Instance
    IN /\ fieldVal'[i][kj[2]] = fieldVal[i][kj[2]]
       /\ IF d.optional THEN InjectionOk' ELSE FailedOn(kj)'

ByNameChecked(kj, Fits(_, _), bindsWhenFits) ==
    LET i == components'[kj[1]].Instance
        f == fields[i][kj[2]]
        d == DirectiveAsCoded(f.tag)
    IN (d.by = "name" /\ d.name \in DOMAIN componentsByName') =>
           IF Fits(componentsByName'[d.name], f.type)
           THEN bindsWhenFits =>
                    /\ fieldVal'[i][kj[2]] = componentsByName'[d.name].Instance
                    /\ InjectionOk'
           ELSE MismatchOn(kj, d)

(***************************************************************************)
(* C12: for a by-name directive whose component exists, the field is bound *)
(* only if the exported types of the component include the declared type   *)
(* of the field; otherwise it is a type mismatch: injection fails with an  *)
(* error when the directive is required, the field is left unset without   *)
(* error when the directive carries ",optional".                           *)
(***************************************************************************)
C12_BoundOnlyIfExported ==
    [][InjectionRan' => \A kj \in Visited' : ByNameChecked(kj, ExportsType, FALSE)]_vars

(***************************************************************************)
(* C12, as the code has it: for a by-name directive whose component exists *)
(* the field is bound to the component if and only if the type of the      *)
(* component's instance is assignable to the declared type of the field,   *)
(* whatever the component exports; otherwise it is a type mismatch,        *)
(* handled as above.                                                       *)
(***************************************************************************)
C12_BoundIffAssignable ==
    [][InjectionRan' => \A kj \in Visited' : ByNameChecked(kj, InstanceFits, TRUE)]_vars

\* injection failed on a field whose named component exists and does not fit
C12_MismatchSeen ==
    /\ InjectionRan
    /\ \E kj \in Visited :
           LET d == DirectiveAsCoded(FieldOf(kj).tag)
           IN /\ d.by = "name"
              /\ d.name \in DOMAIN componentsByName
              /\ ~InstanceFits(componentsByName[d.name], FieldOf(kj).type)
              /\ FailedOn(kj)

(***************************************************************************)
(* The goroutine that runs Run takes a step that writes the descriptor     *)
(* list, the name index or the capability index.                           *)
(***************************************************************************)
RegistryWriteLocations == {"registering", "validate", "validating"}

RegistryWrite == pc["run"].at \in RegistryWriteLocations /\ pc'["run"] # pc["run"]

\* the readers that are inside their read section
Reading == {r \in Readers : pc[r].at # "idle"}

(***************************************************************************)
(* C17: in no interleaving of Run with concurrent GetByName and GetByType  *)
(* calls is the descriptor list, the name index or the capability index    *)
(* written while a reader is inside its read section (Run is the only      *)
(* writer of these interleavings).                                         *)
(***************************************************************************)
C17_WritesExcludeReaders ==
    [][RegistryWrite => (Reading = {} /\ mu.readers = {})]_vars

(***************************************************************************)
(* The callbacks of a trace: the positions at which a callback of the      *)
(* phase was invoked.                                                      *)
(***************************************************************************)
Calls(trace, phase) == {p \in DOMAIN trace : trace[p].phase = phase /\ trace[p].called}

\* InjectDependencies has gone over every component and has nothing left to do
InjectionComplete ==
    InjectDependencies(components, componentsByName, componentsByType, fieldVal)
        = [fv |-> fieldVal, err |-> NoErr]

\* the step in which a successful Run invokes the callbacks and returns
RunInvokesCallbacks ==
    /\ At("run", "lifecycle")
    /\ last'.op = "Run" /\ last'.stage = "done"

(***************************************************************************)
(* C21: during a successful Run, the Init callback of every Initializable  *)
(* component has returned before the Start callback of any component is    *)
(* invoked, and injection has gone over every component before any Init    *)
(* callback is invoked.                                                    *)
(***************************************************************************)
C21_PhasesAreGlobal ==
    [][RunInvokesCallbacks =>
           /\ \A k \in DOMAIN components :
                  components[k].Instance \in Initializable =>
                      \E p \in Calls(last'.trace, "init") : last'.trace[p].idx = k
           /\ \A p \in Calls(last'.trace, "init"), q \in Calls(last'.trace, "start") :
                  p < q
           /\ "inject" \in passed'
           /\ InjectionComplete
           /\ fieldVal' = fieldVal]_vars

\* a successful Run that bound a field, then invoked two Init callbacks and
\* then Start callbacks
C21_TwoInitsThenStarts ==
    /\ last.op = "Run" /\ last.stage = "done"
    /\ At("run", "idle")
    /\ Cardinality(Calls(last.trace, "init")) >= 2
    /\ Calls(last.trace, "start") # {}
    /\ \E kj \in TaggedFields : ValueOf(kj) # Nil

(***************************************************************************)
(* The component at which injection failed, and whether a component has    *)
(* been injected: injecting it again finds nothing to do.                  *)
(***************************************************************************)
FailedAt(comps, err) == CHOOSE k \in DOMAIN comps : comps[k].Name = err.comp

InjectedIn(byName, byType, inst, fv) ==
    injectComponentUnsafe(byName, byType, inst, fv) = [fv |-> fv, err |-> NoErr]

(***************************************************************************)
(* C22: InjectDependencies visits the components in registration order     *)
(* whatever their priorities, and returns at the first component whose     *)
(* injection fails: every component registered before it has been          *)
(* injected, and no field of a component registered after it is modified.  *)
(***************************************************************************)
C22_InjectionInRegistrationOrder ==
    [][InjectionRan' =>
           LET n == IF InjectionOk' THEN Len(components') + 1
                    ELSE FailedAt(components', last'.err)
           IN /\ ~InjectionOk' => last'.err.kind = "inject"
              /\ \A k \in DOMAIN components' :
                     /\ k < n => InjectedIn(componentsByName', componentsByType',
                                            components'[k].Instance, fieldVal')
                     /\ k = n => ~InjectedIn(componentsByName', componentsByType',
                                             components'[k].Instance, fieldVal')
                     /\ k > n => fieldVal'[components'[k].Instance]
                                     = fieldVal[components'[k].Instance]]_vars

\* injection failed at "x", registered first with the lower priority, and
\* left the field of "y" alone, which it could have bound
C22_LaterComponentUntouched ==
    /\ InjectionRan /\ last.err.kind = "inject" /\ last.err.comp = "X"
    /\ Len(components) >= 2
    /\ components[1].Instance = "x" /\ components[2].Instance = "y"
    /\ components[1].Priority < components[2].Priority
    /\ fieldVal["x"][1] = "y"
    /\ fieldVal["y"][1] = Nil
    /\ "*X" \in DOMAIN componentsByType

(***************************************************************************)
(* C23: validateTypeRegistrations rebuilds the index from scratch: every   *)
(* entry it leaves is chosen among the current descriptors (the sole       *)
(* provider or the one primary provider of the type), on success the index *)
(* holds exactly the types that have such a provider, whatever the index   *)
(* held before; and run again on an unchanged descriptor list it succeeds  *)
(* or fails as it did and, on success, leaves the identical index.         *)
(***************************************************************************)
C23_RebuiltFromScratch ==
    [][ValidationRan' =>
           /\ \A c \in DOMAIN componentsByType' :
                  \E k \in (Elected(c))' : componentsByType'[c] = components'[k]
           /\ ValidationOk' =>
                  \A c \in AllTypes :
                      \A k \in (Elected(c))' :
                          /\ c \in DOMAIN componentsByType'
                          /\ componentsByType'[c] = components'[k]
           /\ (ValidationRan /\ components' = components) =>
                  /\ ValidationOk' <=> ValidationOk
                  /\ ValidationOk' => componentsByType' = componentsByType]_vars

\* a Run after a successful one found "y" registered since as the primary
\* provider of I, which "x" alone provided before, and mapped I to "y"
C23_EntryReplaced ==
    /\ ValidationOk
    /\ \E k \in DOMAIN lastStart.comps :
           /\ lastStart.comps[k].Instance = "x"
           /\ "I" \in Range(lastStart.comps[k].ExportedTypes)
    /\ \A k \in DOMAIN lastStart.comps : lastStart.comps[k].Instance # "y"
    /\ "I" \in DOMAIN componentsByType
    /\ componentsByType["I"].Instance = "y"

(***************************************************************************)
(* C24: in every reachable state no two descriptors of the list have the   *)
(* same name, every descriptor of the list is the entry of the name index  *)
(* at its name and the name index has no other entry; GetByName(n) then    *)
(* returns the instance registered under n, and the not-found error        *)
(* exactly when no descriptor has the name n.                              *)
(***************************************************************************)
AllNames == Names \cup {DefaultName(i) : i \in Instances}

C24_NameIndexAgreesWithList ==
    /\ \A a, b \in DOMAIN components :
           components[a].Name = components[b].Name => a = b
    /\ \A k \in DOMAIN components :
           /\ components[k].Name \in DOMAIN componentsByName
           /\ componentsByName[components[k].Name] = components[k]
    /\ DOMAIN componentsByName = {components[k].Name : k \in DOMAIN components}
    /\ \A n \in AllNames :
           LET got == getByNameUnsafe(componentsByName, n)
           IN IF HoldersOf(components, n) = {}
              THEN got.err.kind = "not-found" /\ got.dep = Nil
              ELSE /\ got.err = NoErr
                   /\ \A k \in HoldersOf(components, n) : got.dep = components[k].Instance

\* two descriptors are registered, one under a chosen name, a third
\* registration was rejected as a duplicate, and a name is still free
C24_TwoNamesOneFree ==
    /\ Len(components) = 2
    /\ last.err.kind = "duplicate"
    /\ "n" \in DOMAIN componentsByName
    /\ "Y" \notin DOMAIN componentsByName

(***************************************************************************)
(* C25: after a successful Run, every field with the directive "" or       *)
(* "required" holds exactly the instance that GetByType returns for the    *)
(* declared type of the field, and that instance is the sole provider or   *)
(* the one primary provider of the type.                                   *)
(***************************************************************************)
ByTypeRequiredFields == {kj \in TaggedFields : FieldOf(kj).tag \in {"", "required"}}

C25_FieldIsWhatGetByTypeReturns ==
    (last.op = "Run" /\ last.stage = "done") =>
        \A kj \in ByTypeRequiredFields :
            LET got == getByTypeUnsafe(componentsByType, FieldOf(kj).type)
            IN /\ got.err = NoErr
               /\ ValueOf(kj) = got.dep
               /\ \E k \in Elected(FieldOf(kj).type) : components[k].Instance = got.dep

(***************************************************************************)
(* C26: after Start (called directly or by Run) returns the error of a     *)
(* failed Start callback, started is false, and a Stop that follows        *)
(* invokes no Stop callback: the components whose Start callback had       *)
(* succeeded are not stopped.                                              *)
(***************************************************************************)
StartCallbackFailed == last.op \in {"Start", "Run"} /\ last.err.kind = "start"

StopCallsOf(trace, k) == {j \in Calls(trace, "stop") : trace[j].idx = k}

C27_StopAlwaysCompletes ==
    [][/\ last'.op = "Stop" =>
              /\ ~started'
              /\ \A k \in DOMAIN components :
                     Cardinality(StopCallsOf(last'.trace, k)) <= 1
              /\ Calls(last'.trace, "stop") # {} => started
       /\ (last.op = "Stop" /\ last'.op = "Stop") =>
              last'.trace = <<>> /\ last'.err = NoErr
       /\ (~started /\ started') =>
              last'.op \in {"Start", "Run"} /\ last'.err = NoErr]_vars

\* a Stop whose callbacks were invoked and one of which failed has left the
\* container stopped
C27_StoppedDespiteFailure ==
    /\ last.op = "Stop" /\ last.stage = "ran"
    /\ last.err.kind = "stop"
    /\ Cardinality(Calls(last.trace, "stop")) >= 2
    /\ ~started

(***************************************************************************)
(* C28: Shutdown never blocks, whenever and however often it is called,    *)
(* RunApplication calls Container.Stop at most once, and when Shutdown has *)
(* been called, before or after RunApplication got to its wait, and        *)
(* startup succeeded, RunApplication leaves the wait and returns after one *)
(* call of Container.Stop.                                                 *)
(***************************************************************************)
C28_ShutdownIsNeverLost ==
    /\ [](ENABLED Shutdown /\ stopCalls <= 1)
    /\ (requested /\ appPc = "wait") ~> (appPc = "returned" /\ stopCalls = 1)

\* RunApplication has returned after its one Stop, on a request made before
\* it got to its wait and repeated since: a value is still buffered
C28_StoppedOnRequest ==
    /\ appPc = "returned" /\ stopCalls = 1
    /\ requested
    /\ shutdownChan = ShutdownChanCap
    /\ last.op = "Stop" /\ last.stage = "ran"
    /\ Calls(last.trace, "stop") # {}

====
